---- MODULE Spec2Model ----
(***************************************************************************)
(* Model of ex02/geometry.py: Point, Line, Arc and Geometry.               *)
(*                                                                         *)
(* Every coordinate of the program is a Python float, an IEEE-754 binary64 *)
(* number.  The claims about the program depend on how the float           *)
(* operations round (math.isclose against 0, asin of a quotient that is 1  *)
(* up to rounding), so floats are modelled bit-exactly: a float is a sign, *)
(* a 53-bit significand and an exponent, and + - * / sqrt round to nearest *)
(* with ties to even.  TLC's integers are 32 bits wide, so significands    *)
(* are kept as sequences of 15-bit limbs.                                  *)
(***************************************************************************)
EXTENDS Integers, Sequences, FiniteSets, TLC

(***************************************************************************)
(* Python evaluates the arguments of a call, and the right-hand side of an *)
(* assignment, once, before the call or the next statement.  TLC evaluates *)
(* an operator's argument and a LET definition where they are used, every  *)
(* time they are used.  The operators below therefore bind their arguments *)
(* and their local variables by value:                                     *)
(*     CHOOSE val_ \in {e : x \in {v}} : TRUE                              *)
(* evaluates v once and is e with x bound to that value.  An operator's    *)
(* parameter a_ is bound to a in this way.  Nested bindings read from the  *)
(* outside in: the bindings of an expression follow it, so the statement   *)
(* that Python runs first is the binding written last.                     *)
(***************************************************************************)

(***************************************************************************)
(* Natural numbers of arbitrary size: little-endian sequences of limbs in  *)
(* 0..Base-1 without a zero top limb; <<>> is 0.                           *)
(***************************************************************************)
LimbBits == 15

Base == 32768

MantBits == 53

Min(a_, b_) == (CHOOSE val_ \in {IF a < b THEN a ELSE b
                 : a \in {a_}, b \in {b_}} : TRUE)

Max(a_, b_) == (CHOOSE val_ \in {IF a > b THEN a ELSE b
                 : a \in {a_}, b \in {b_}} : TRUE)

\* a without its zero top limbs
BNorm(a_) ==
  (CHOOSE val_ \in {
    (CHOOSE val_ \in {
      IF nz = {} THEN <<>>
      ELSE SubSeq(a, 1, CHOOSE i \in nz : \A j \in nz : j <= i)
      : nz \in {{i \in 1..Len(a) : a[i] # 0}}} : TRUE)
    : a \in {a_}} : TRUE)

BLimb(a_, i_) ==
  (CHOOSE val_ \in {IF 1 <= i /\ i <= Len(a) THEN a[i] ELSE 0
    : a \in {a_}, i \in {i_}} : TRUE)

\* the carry into limb i of a sum whose limb sums are x: some limb below i
\* overflows and every limb between passes the carry on
Carry(x, i) ==
  IF \E j \in 1..(i - 1) :
       x[j] >= Base /\ \A l \in (j + 1)..(i - 1) : x[l] = Base - 1
  THEN 1 ELSE 0

BAdd(a_, b_) ==
  (CHOOSE val_ \in {
    (CHOOSE val_ \in {
      (CHOOSE val_ \in {
        BNorm([i \in 1..n |-> (x[i] + Carry(x, i)) % Base])
        : x \in {SubSeq([i \in 1..n |-> BLimb(a, i) + BLimb(b, i)], 1, n)}} : TRUE)
      : n \in {Max(Len(a), Len(b)) + 1}} : TRUE)
    : a \in {a_}, b \in {b_}} : TRUE)

\* the borrow from limb i of a difference whose limb differences are d
Borrow(d, i) ==
  IF \E j \in 1..(i - 1) :
       d[j] < 0 /\ \A l \in (j + 1)..(i - 1) : d[l] = 0
  THEN 1 ELSE 0

\* a - b for a >= b
BSub(a_, b_) ==
  (CHOOSE val_ \in {
    (CHOOSE val_ \in {
      (CHOOSE val_ \in {
        BNorm([i \in 1..n |-> (d[i] + Base - Borrow(d, i)) % Base])
        : d \in {SubSeq([i \in 1..n |-> a[i] - BLimb(b, i)], 1, n)}} : TRUE)
      : n \in {Len(a)}} : TRUE)
    : a \in {a_}, b \in {b_}} : TRUE)

\* -1, 0, 1 as a < b, a = b, a > b
BCmp(a_, b_) ==
  (CHOOSE val_ \in {
    IF Len(a) > Len(b) THEN 1
    ELSE IF Len(a) < Len(b) THEN -1
    ELSE (CHOOSE val_ \in {
           IF df = {} THEN 0
           ELSE (CHOOSE val_ \in {
                  IF a[top] > b[top] THEN 1 ELSE -1
                  : top \in {CHOOSE i \in df : \A j \in df : j <= i}} : TRUE)
           : df \in {{i \in 1..Len(a) : a[i] # b[i]}}} : TRUE)
    : a \in {a_}, b \in {b_}} : TRUE)

\* a * k for a limb k: the low halves of the limb products plus their high
\* halves one limb up
BMulSmall(a_, k_) ==
  (CHOOSE val_ \in {
    (CHOOSE val_ \in {
      BAdd(SubSeq([i \in 1..n |-> (a[i] * k) % Base], 1, n),
           SubSeq([i \in 1..(n + 1) |->
                     IF i = 1 THEN 0 ELSE (a[i - 1] * k) \div Base],
                  1, n + 1))
      : n \in {Len(a)}} : TRUE)
    : a \in {a_}, k \in {k_}} : TRUE)

BShlLimbs(a_, n_) ==
  (CHOOSE val_ \in {
    IF a = <<>> THEN <<>> ELSE [i \in 1..n |-> 0] \o a
    : a \in {a_}, n \in {n_}} : TRUE)

RECURSIVE BMulAt(_, _, _)
BMulAt(a_, b_, i_) ==
  (CHOOSE val_ \in {
    IF i > Len(a) THEN <<>>
    ELSE BAdd(BShlLimbs(BMulSmall(b, a[i]), i - 1), BMulAt(a, b, i + 1))
    : a \in {a_}, b \in {b_}, i \in {i_}} : TRUE)

BMul(a_, b_) == BMulAt(a_, b_, 1)

\* a * 2^n
BShl(a_, n_) ==
  (CHOOSE val_ \in {
    BShlLimbs(BMulSmall(a, 2 ^ (n % LimbBits)), n \div LimbBits)
    : a \in {a_}, n \in {n_}} : TRUE)

\* a \div 2^n
BShr(a_, n_) ==
  (CHOOSE val_ \in {
    (CHOOSE val_ \in {
      IF q >= Len(a) THEN <<>>
      ELSE BNorm([i \in 1..(Len(a) - q) |->
                    (a[i + q] \div p) + (BLimb(a, i + q + 1) % p) * (Base \div p)])
      : q \in {n \div LimbBits}, p \in {2 ^ (n % LimbBits)}} : TRUE)
    : a \in {a_}, n \in {n_}} : TRUE)

\* the number of bits of a limb
IntBitLen(n_) ==
  (CHOOSE val_ \in {
    IF n = 0 THEN 0 ELSE CHOOSE k \in 1..LimbBits : 2 ^ (k - 1) <= n /\ n < 2 ^ k
    : n \in {n_}} : TRUE)

BBitLen(a_) ==
  (CHOOSE val_ \in {
    IF a = <<>> THEN 0 ELSE LimbBits * (Len(a) - 1) + IntBitLen(a[Len(a)])
    : a \in {a_}} : TRUE)

RECURSIVE BFromNat(_)
BFromNat(n_) ==
  (CHOOSE val_ \in {
    IF n = 0 THEN <<>> ELSE <<n % Base>> \o BFromNat(n \div Base)
    : n \in {n_}} : TRUE)

\* the largest q' <= q with b * q' <= r
RECURSIVE BFix(_, _, _)
BFix(q, b, r) ==
  IF BCmp(BMulSmall(b, q), r) > 0 THEN BFix(q - 1, b, r) ELSE q

\* r \div b for r < b * Base and a b whose top limb has its top bit set: the
\* quotient of the top two limbs by the top limb of b, corrected downwards
QDigit(r_, b_) ==
  (CHOOSE val_ \in {
    IF Len(r) < Len(b) THEN 0
    ELSE (CHOOSE val_ \in {BFix(q, b, r)
           : q \in {Min(Base - 1,
                  (BLimb(r, Len(b) + 1) * Base + r[Len(b)]) \div b[Len(b)])}} : TRUE)
    : r \in {r_}, b \in {b_}} : TRUE)

\* long division on limbs: r is the remainder so far with limb i of a
\* brought down, q holds the quotient limbs above i
RECURSIVE BDivLoop(_, _, _, _, _)
BDivLoop(a_, b_, i_, r_, q_) ==
  (CHOOSE val_ \in {
    (CHOOSE val_ \in {
      IF i = 1
      THEN [q |-> <<qd>> \o q, r |-> BSub(r, BMulSmall(b, qd))]
      ELSE BDivLoop(a, b, i - 1,
                    BNorm(<<a[i - 1]>> \o BSub(r, BMulSmall(b, qd))),
                    <<qd>> \o q)
      : qd \in {QDigit(r, b)}} : TRUE)
    : a \in {a_}, b \in {b_}, i \in {i_}, r \in {r_}, q \in {q_}} : TRUE)

\* quotient and remainder of a by b > 0, both shifted so that the top limb of
\* the divisor has its top bit set
BDivMod(a_, b_) ==
  (CHOOSE val_ \in {
    (CHOOSE val_ \in {
      (CHOOSE val_ \in {
        IF Len(as) < Len(bs) THEN [q |-> <<>>, r |-> a]
        ELSE (CHOOSE val_ \in {[q |-> BNorm(d.q), r |-> BShr(d.r, sh)]
               : d \in {BDivLoop(as, bs, Len(as) - Len(bs) + 1,
                           BNorm(SubSeq(as, Len(as) - Len(bs) + 1, Len(as))),
                           <<>>)}} : TRUE)
        : as \in {BShl(a, sh)}, bs \in {BShl(b, sh)}} : TRUE)
      : sh \in {LimbBits - IntBitLen(b[Len(b)])}} : TRUE)
    : a \in {a_}, b \in {b_}} : TRUE)

\* floor of the square root of t < Base * Base (Newton's iteration from above)
RECURSIVE IntSqrtIter(_, _)
IntSqrtIter(t, x) ==
  (CHOOSE val_ \in {
    IF y >= x THEN x ELSE IntSqrtIter(t, y)
    : y \in {(x + t \div x) \div 2}} : TRUE)

IntSqrt(t_) == (CHOOSE val_ \in {IF t = 0 THEN 0 ELSE IntSqrtIter(t, Base)
                 : t \in {t_}} : TRUE)

RECURSIVE BSqrtIter(_, _)
BSqrtIter(n, x) ==
  (CHOOSE val_ \in {
    IF BCmp(y, x) >= 0 THEN x ELSE BSqrtIter(n, y)
    : y \in {BShr(BAdd(x, BDivMod(n, x).q), 1)}} : TRUE)

\* floor of the square root of n: Newton's iteration from above, started
\* from the square root of the top two limbs of n
BSqrt(n_) ==
  (CHOOSE val_ \in {
    IF n = <<>> THEN <<>> ELSE
    (CHOOSE val_ \in {
      (CHOOSE val_ \in {
        (CHOOSE val_ \in {BSqrtIter(n, x)
          : x \in {BShl(BFromNat(IntSqrt(BLimb(t, 1) + BLimb(t, 2) * Base) + 1),
                  sh \div 2)}} : TRUE)
        : t \in {BShr(n, sh)}} : TRUE)
      : sh \in {IF BBitLen(n) <= 2 * LimbBits THEN 0
         ELSE 2 * ((BBitLen(n) - 2 * LimbBits + 1) \div 2)}} : TRUE)
    : n \in {n_}} : TRUE)

(***************************************************************************)
(* Python floats.  A float is [s, e, m]: sign s (1 is negative), and the   *)
(* value m * 2^e with 2^52 <= m < 2^53; zero is FZero.  The program's      *)
(* numbers stay far from the overflow and subnormal ranges, and no result  *)
(* of the program depends on the sign of a zero (x / -0.0 raises like      *)
(* x / 0.0, -0.0 == 0.0, -0.0 is falsy), so the two zeros are one value.   *)
(***************************************************************************)
FZero == [s |-> 0, e |-> 0, m |-> <<>>]

IsZero(a) == a.m = <<>>

\* the float nearest to (-1)^s * (m + f) * 2^e, where 0 < f < 1 if sticky and
\* f = 0 otherwise; ties go to the even significand
FRound(s_, m_, e_, sticky_) ==
  (CHOOSE val_ \in {
    IF m = <<>> THEN FZero
    ELSE (CHOOSE val_ \in {
      IF L <= MantBits
      THEN [s |-> s, e |-> e - (MantBits - L), m |-> BShl(m, MantBits - L)]
      ELSE (CHOOSE val_ \in {
             (CHOOSE val_ \in {
               (CHOOSE val_ \in {
                 IF BBitLen(q1) > MantBits
                 THEN [s |-> s, e |-> e + (L - MantBits) + 1, m |-> BShr(q1, 1)]
                 ELSE [s |-> s, e |-> e + (L - MantBits), m |-> q1]
                 : q1 \in {IF c > 0 \/ (c = 0 /\ (sticky \/ q[1] % 2 = 1))
                    THEN BAdd(q, <<1>>) ELSE q}} : TRUE)
               : c \in {BCmp(BSub(m, BShl(q, L - MantBits)),
                       BShl(<<1>>, L - MantBits - 1))}} : TRUE)
             : q \in {BShr(m, L - MantBits)}} : TRUE)
           : L \in {BBitLen(m)}} : TRUE)
    : s \in {s_}, m \in {m_}, e \in {e_}, sticky \in {sticky_}} : TRUE)

\* n / 2^k for an integer n: the float of a literal or of an int argument
Dyadic(n_, k_) ==
  (CHOOSE val_ \in {
    FRound(IF n < 0 THEN 1 ELSE 0, BFromNat(IF n < 0 THEN -n ELSE n), -k, FALSE)
    : n \in {n_}, k \in {k_}} : TRUE)

\* float(n)
FromInt(n_) == Dyadic(n_, 0)

FNeg(a_) ==
  (CHOOSE val_ \in {IF IsZero(a) THEN a ELSE [a EXCEPT !.s = 1 - a.s]
    : a \in {a_}} : TRUE)

\* math.fabs
FAbs(a_) == [a_ EXCEPT !.s = 0]

\* compares |a| with |b|: -1, 0, 1
FCmpMag(a_, b_) ==
  (CHOOSE val_ \in {
    IF IsZero(a) THEN (IF IsZero(b) THEN 0 ELSE -1)
    ELSE IF IsZero(b) THEN 1
    ELSE IF a.e > b.e THEN 1
    ELSE IF a.e < b.e THEN -1
    ELSE BCmp(a.m, b.m)
    : a \in {a_}, b \in {b_}} : TRUE)

\* compares a with b: -1, 0, 1
FCmp(a_, b_) ==
  (CHOOSE val_ \in {
    IF a.s # b.s THEN (IF a.s = 1 THEN -1 ELSE 1)
    ELSE IF a.s = 0 THEN FCmpMag(a, b) ELSE FCmpMag(b, a)
    : a \in {a_}, b \in {b_}} : TRUE)

FLe(a_, b_) == FCmp(a_, b_) <= 0

FLt(a_, b_) == FCmp(a_, b_) < 0

\* a + b where the exponent of a is at least that of b, both non-zero; a b
\* more than AlignMax binary places below a only decides the rounding
AlignMax == 64

FAddOrdered(a_, b_) ==
  (CHOOSE val_ \in {
    IF a.e - b.e > AlignMax
    THEN IF a.s = b.s THEN FRound(a.s, BShl(a.m, 3), a.e - 3, TRUE)
         ELSE FRound(a.s, BSub(BShl(a.m, 3), <<1>>), a.e - 3, TRUE)
    ELSE (CHOOSE val_ \in {
           (CHOOSE val_ \in {
             IF a.s = b.s THEN FRound(a.s, BAdd(A, b.m), b.e, FALSE)
             ELSE IF c = 0 THEN FZero
             ELSE IF c > 0 THEN FRound(a.s, BSub(A, b.m), b.e, FALSE)
             ELSE FRound(b.s, BSub(b.m, A), b.e, FALSE)
             : c \in {BCmp(A, b.m)}} : TRUE)
           : A \in {BShl(a.m, a.e - b.e)}} : TRUE)
    : a \in {a_}, b \in {b_}} : TRUE)

\* a + b
FAdd(a_, b_) ==
  (CHOOSE val_ \in {
    IF IsZero(a) THEN b
    ELSE IF IsZero(b) THEN a
    ELSE IF a.e >= b.e THEN FAddOrdered(a, b) ELSE FAddOrdered(b, a)
    : a \in {a_}, b \in {b_}} : TRUE)

\* a - b
FSub(a_, b_) == FAdd(a_, FNeg(b_))

\* a * b
FMul(a_, b_) ==
  (CHOOSE val_ \in {
    IF IsZero(a) \/ IsZero(b) THEN FZero
    ELSE FRound((a.s + b.s) % 2, BMul(a.m, b.m), a.e + b.e, FALSE)
    : a \in {a_}, b \in {b_}} : TRUE)

\* a / b for b # 0 (Python raises ZeroDivisionError for b = 0: see PyDiv)
FDiv(a_, b_) ==
  (CHOOSE val_ \in {
    IF IsZero(a) THEN FZero
    ELSE (CHOOSE val_ \in {
           FRound((a.s + b.s) % 2, d.q, a.e - b.e - (MantBits + 3),
                  d.r # <<>>)
           : d \in {BDivMod(BShl(a.m, MantBits + 3), b.m)}} : TRUE)
    : a \in {a_}, b \in {b_}} : TRUE)

\* math.sqrt(a) for a >= 0
FSqrt(a_) ==
  (CHOOSE val_ \in {
    IF IsZero(a) THEN FZero
    ELSE (CHOOSE val_ \in {
           (CHOOSE val_ \in {
             FRound(0, r, (a.e - (a.e % 2) - (MantBits + 3)) \div 2,
                    BMul(r, r) # n)
             : r \in {BSqrt(n)}} : TRUE)
           : n \in {BShl(a.m, MantBits + 3 + (a.e % 2))}} : TRUE)
    : a \in {a_}} : TRUE)

FOne == FromInt(1)

FTwo == FromInt(2)

\* the literal 1e-9 (also the default rel_tol of math.isclose): the float
\* nearest to 10^-9
Tol1e9 == [s |-> 0, e |-> -82, m |-> <<22165, 20557, 14383, 137>>]

\* math.isclose(a, b, rel_tol=rel_tol, abs_tol=abs_tol) on finite floats
isclose(a_, b_, rel_tol_, abs_tol_) ==
  (CHOOSE val_ \in {
    IF FCmp(a, b) = 0 THEN TRUE
    ELSE (CHOOSE val_ \in {
           \/ FLe(diff, FAbs(FMul(rel_tol, b)))
           \/ FLe(diff, FAbs(FMul(rel_tol, a)))
           \/ FLe(diff, abs_tol)
           : diff \in {FAbs(FSub(b, a))}} : TRUE)
    : a \in {a_}, b \in {b_}, rel_tol \in {rel_tol_}, abs_tol \in {abs_tol_}} : TRUE)

(***************************************************************************)
(* Results of calls: a value, or the exception the call raises.            *)
(***************************************************************************)
Ok(v) == [exc |-> "none", msg |-> "", val |-> v]

Raise(e, m) == [exc |-> e, msg |-> m, val |-> <<>>]

ParallelMsg == "Lines are parallel"

DomainMsg == "math domain error"

ZeroDivMsg == "float division by zero"

\* a / b as Python evaluates it
PyDiv(a_, b_) ==
  (CHOOSE val_ \in {
    IF IsZero(b) THEN Raise("ZeroDivisionError", ZeroDivMsg)
    ELSE Ok(FDiv(a, b))
    : a \in {a_}, b \in {b_}} : TRUE)

(***************************************************************************)
(* class Point                                                             *)
(***************************************************************************)
Point(x, y) == [x |-> x, y |-> y]

normal(self_) == (CHOOSE val_ \in {Point(FNeg(self.y), self.x)
                   : self \in {self_}} : TRUE)

reverse(self_) == (CHOOSE val_ \in {Point(FNeg(self.x), FNeg(self.y))
                    : self \in {self_}} : TRUE)

\* normalize(self, d): d = 0 stands for the default argument
normalize(self_, d_) ==
  (CHOOSE val_ \in {
    (CHOOSE val_ \in {
      (CHOOSE val_ \in {
        IF qx.exc # "none" THEN qx
        ELSE Ok(Point(qx.val, FDiv(self.y, d1)))
        : qx \in {PyDiv(self.x, d1)}} : TRUE)
      : d1 \in {IF IsZero(d)
         THEN FSqrt(FAdd(FMul(self.x, self.x), FMul(self.y, self.y)))
         ELSE d}} : TRUE)
    : self \in {self_}, d \in {d_}} : TRUE)

scalar_product(self_, other_) ==
  (CHOOSE val_ \in {
    FAdd(FMul(self.x, other.x), FMul(self.y, other.y))
    : self \in {self_}, other \in {other_}} : TRUE)

is_orthogonal(self_, other_) ==
  isclose(scalar_product(self_, other_), FZero, Tol1e9, FZero)

is_collinear(self_, other_) == is_orthogonal(self_, normal(other_))

Point_add(self_, other_) ==
  (CHOOSE val_ \in {
    Point(FAdd(self.x, other.x), FAdd(self.y, other.y))
    : self \in {self_}, other \in {other_}} : TRUE)

Point_sub(self_, other_) ==
  (CHOOSE val_ \in {
    Point(FSub(self.x, other.x), FSub(self.y, other.y))
    : self \in {self_}, other \in {other_}} : TRUE)

Point_mul(self_, factor_) ==
  (CHOOSE val_ \in {
    Point(FMul(self.x, factor), FMul(self.y, factor))
    : self \in {self_}, factor \in {factor_}} : TRUE)

Point_eq(self_, other_) ==
  (CHOOSE val_ \in {
    /\ isclose(self.x, other.x, Tol1e9, Tol1e9)
    /\ isclose(self.y, other.y, Tol1e9, Tol1e9)
    : self \in {self_}, other \in {other_}} : TRUE)

distance(a_, b_) ==
  (CHOOSE val_ \in {
    (CHOOSE val_ \in {
      FSqrt(FAdd(FMul(dx, dx), FMul(dy, dy)))
      : dx \in {FSub(a.x, b.x)}, dy \in {FSub(a.y, b.y)}} : TRUE)
    : a \in {a_}, b \in {b_}} : TRUE)

\* bool(p) of a Point: the class defines neither __bool__ nor __len__
Point_bool(p) == TRUE

(***************************************************************************)
(* class Line                                                              *)
(***************************************************************************)
Line(point_, vector_) ==
  (CHOOSE val_ \in {
    (CHOOSE val_ \in {
      IF n.exc # "none" THEN n ELSE Ok([point |-> point, vector |-> n.val])
      : n \in {normalize(vector, FZero)}} : TRUE)
    : point \in {point_}, vector \in {vector_}} : TRUE)

contains(self_, point_) ==
  (CHOOSE val_ \in {
    LET a == self.point
        b == point
    IN (CHOOSE val_ \in {
         is_collinear(v_ab, self.vector)
         : v_ab \in {Point(FSub(a.x, b.x), FSub(a.y, b.y))}} : TRUE)
    : self \in {self_}, point \in {point_}} : TRUE)

\* intersection with the guard isclose(v1_v0, 1.) in place of
\* isclose(fabs(v1_v0), 1.)
intersection_without_fabs(self_, line_) ==
  (CHOOSE val_ \in {
    LET v0 == self.vector
        p0 == self.point
        v1 == line.vector
        p1 == line.point
    IN (CHOOSE val_ \in {
         (CHOOSE val_ \in {
           IF isclose(v1_v0, FOne, Tol1e9, FZero)
           THEN Raise("ValueError", ParallelMsg)
           ELSE (CHOOSE val_ \in {
                  IF coef0.exc # "none" THEN coef0
                  ELSE Ok(Point_add(Point_mul(v0, coef0.val), p0))
                  : coef0 \in {PyDiv(FSub(dp_vo, FMul(dp_v1, v1_v0)),
                           FSub(FOne, FMul(v1_v0, v1_v0)))}} : TRUE)
           : dp_vo \in {scalar_product(dp, v0)},
             dp_v1 \in {scalar_product(dp, v1)}} : TRUE)
         : v1_v0 \in {scalar_product(v1, v0)}, dp \in {Point_sub(p1, p0)}} : TRUE)
    : self \in {self_}, line \in {line_}} : TRUE)

intersection(self_, line_) ==
  (CHOOSE val_ \in {
    LET v0 == self.vector
        p0 == self.point
        v1 == line.vector
        p1 == line.point
    IN (CHOOSE val_ \in {
         (CHOOSE val_ \in {
           IF isclose(FAbs(v1_v0), FOne, Tol1e9, FZero)
           THEN Raise("ValueError", ParallelMsg)
           ELSE (CHOOSE val_ \in {
                  IF coef0.exc # "none" THEN coef0
                  ELSE Ok(Point_add(Point_mul(v0, coef0.val), p0))
                  : coef0 \in {PyDiv(FSub(dp_vo, FMul(dp_v1, v1_v0)),
                           FSub(FOne, FMul(v1_v0, v1_v0)))}} : TRUE)
           : dp_vo \in {scalar_product(dp, v0)},
             dp_v1 \in {scalar_product(dp, v1)}} : TRUE)
         : v1_v0 \in {scalar_product(v1, v0)}, dp \in {Point_sub(p1, p0)}} : TRUE)
    : self \in {self_}, line \in {line_}} : TRUE)

(***************************************************************************)
(* class Geometry                                                          *)
(***************************************************************************)
rotate_from_axe(vector_, axe_) ==
  (CHOOSE val_ \in {
    (CHOOSE val_ \in {
      IF n.exc # "none" THEN n
      ELSE (CHOOSE val_ \in {
             (CHOOSE val_ \in {Ok(Point(x, y))
               : x \in {FSub(FMul(vector.x, cos_), FMul(vector.y, sin_))},
                 y \in {FAdd(FMul(vector.x, sin_), FMul(vector.y, cos_))}} : TRUE)
             : cos_ \in {n.val.x}, sin_ \in {FNeg(n.val.y)}} : TRUE)
      : n \in {normalize(axe, FZero)}} : TRUE)
    : vector \in {vector_}, axe \in {axe_}} : TRUE)

\* get_symmetrical without the change of sign of symmetrical.y
get_symmetrical_without_flip(vector_, axe_) ==
  (CHOOSE val_ \in {
    (CHOOSE val_ \in {
      IF symmetrical.exc # "none" THEN symmetrical
      ELSE rotate_from_axe(Point(symmetrical.val.x, symmetrical.val.y),
                           Point(axe.x, FNeg(axe.y)))
      : symmetrical \in {rotate_from_axe(vector, axe)}} : TRUE)
    : vector \in {vector_}, axe \in {axe_}} : TRUE)

\* get_symmetrical rotating back about axe instead of Point(axe.x, -axe.y)
get_symmetrical_same_axe(vector_, axe_) ==
  (CHOOSE val_ \in {
    (CHOOSE val_ \in {
      IF symmetrical.exc # "none" THEN symmetrical
      ELSE rotate_from_axe(Point(symmetrical.val.x, FNeg(symmetrical.val.y)),
                           axe)
      : symmetrical \in {rotate_from_axe(vector, axe)}} : TRUE)
    : vector \in {vector_}, axe \in {axe_}} : TRUE)

get_symmetrical(vector_, axe_) ==
  (CHOOSE val_ \in {
    (CHOOSE val_ \in {
      IF symmetrical.exc # "none" THEN symmetrical
      ELSE rotate_from_axe(Point(symmetrical.val.x, FNeg(symmetrical.val.y)),
                           Point(axe.x, FNeg(axe.y)))
      : symmetrical \in {rotate_from_axe(vector, axe)}} : TRUE)
    : vector \in {vector_}, axe \in {axe_}} : TRUE)

(***************************************************************************)
(* class Arc                                                               *)
(***************************************************************************)
\* the argument default end_tangent=None
None == <<>>

Some(p) == <<p>>

compute_intersection_with_each_tangent(p0_, p1_, tangent_p0_, tangent_p1_) ==
  (CHOOSE val_ \in {
    (CHOOSE val_ \in {
      (CHOOSE val_ \in {
        IF line_p0.exc # "none" THEN line_p0
        ELSE (CHOOSE val_ \in {
               IF line_p1.exc # "none" THEN line_p1
               ELSE intersection(line_p0.val, line_p1.val)
               : line_p1 \in {Line(p1, radial_p1)}} : TRUE)
        : line_p0 \in {Line(p0, radial_p0)}} : TRUE)
      : radial_p0 \in {normal(tangent_p0)},
        radial_p1 \in {normal(tangent_p1)}} : TRUE)
    : p0 \in {p0_}, p1 \in {p1_}, tangent_p0 \in {tangent_p0_},
      tangent_p1 \in {tangent_p1_}} : TRUE)

midpoint(p0_, p1_) ==
  (CHOOSE val_ \in {
    Point(FDiv(FAdd(p1.x, p0.x), FTwo), FDiv(FAdd(p1.y, p0.y), FTwo))
    : p0 \in {p0_}, p1 \in {p1_}} : TRUE)

compute_center_from_start_tangent(start_, end_, tangent_) ==
  (CHOOSE val_ \in {
    (CHOOSE val_ \in {
      (CHOOSE val_ \in {
        IF center.exc = "ValueError" THEN Ok(c) ELSE center
        : center \in {compute_intersection_with_each_tangent(start, c, tangent, chord)}} : TRUE)
      : chord \in {Point_sub(end, start)}, c \in {midpoint(start, end)}} : TRUE)
    : start \in {start_}, end \in {end_}, tangent \in {tangent_}} : TRUE)

compute_center_from_both_tangents(p0_, p1_, tangent_p0_, tangent_p1_) ==
  (CHOOSE val_ \in {
    (CHOOSE val_ \in {
      IF center.exc = "ValueError" THEN Ok(midpoint(p0, p1)) ELSE center
      : center \in {compute_intersection_with_each_tangent(p0, p1, tangent_p0, tangent_p1)}} : TRUE)
    : p0 \in {p0_}, p1 \in {p1_}, tangent_p0 \in {tangent_p0_},
      tangent_p1 \in {tangent_p1_}} : TRUE)

compute_center(start_, end_, start_tangent_, end_tangent_) ==
  (CHOOSE val_ \in {
    IF ~Point_bool(end_tangent)
    THEN compute_center_from_start_tangent(start, end, start_tangent)
    ELSE compute_center_from_both_tangents(start, end, start_tangent,
                                           end_tangent)
    : start \in {start_}, end \in {end_},
      start_tangent \in {start_tangent_}, end_tangent \in {end_tangent_}} : TRUE)

\* math.asin(x) and math.acos(x): the call, kept as a term, or the
\* ValueError of an argument outside [-1, 1]
PyArc(fn_, x_) ==
  (CHOOSE val_ \in {
    IF FLt(FOne, FAbs(x)) THEN Raise("ValueError", DomainMsg)
    ELSE Ok([fn |-> fn, arg |-> x])
    : fn \in {fn_}, x \in {x_}} : TRUE)

\* Arc(start, end, start_tangent, end_tangent): the fields of the new object
\* and the local end_tangent (angle is 2 * asin(arg) or acos(arg) as angle.fn
\* says; length is angle * pi * radius), or the exception of the constructor
Arc(start_, end_, start_tangent_, end_tangent_) ==
  (CHOOSE val_ \in {
    (CHOOSE val_ \in {
      IF et.exc # "none" THEN et
      ELSE (CHOOSE val_ \in {
        IF c.exc # "none" THEN c
        ELSE (CHOOSE val_ \in {
          (CHOOSE val_ \in {
            IF angle.exc # "none" THEN angle
            ELSE Ok([start |-> start, end |-> end,
                     end_tangent |-> et.val, center |-> c.val,
                     radius |-> radius, angle |-> angle.val])
            : angle \in {IF ~IsZero(dist)
               THEN (CHOOSE val_ \in {
                      IF q.exc # "none" THEN q ELSE PyArc("asin", q.val)
                      : q \in {PyDiv(dist, FMul(FTwo, radius))}} : TRUE)
               ELSE PyArc("acos", scalar_product(start_tangent, et.val))}} : TRUE)
               : radius \in {distance(c.val, start)},
                 dist \in {distance(start, end)}} : TRUE)
             : c \in {compute_center(start, end, start_tangent, et.val)}} : TRUE)
      : et \in {IF end_tangent = None
         THEN get_symmetrical(start_tangent, Point_sub(start, end))
         ELSE Ok(end_tangent[1])}} : TRUE)
    : start \in {start_}, end \in {end_},
      start_tangent \in {start_tangent_}, end_tangent \in {end_tangent_}} : TRUE)

(***************************************************************************)
(* Calls.  The module has no state of its own: every operation is a pure   *)
(* function of its arguments.  A behaviour is one use of the module: Init  *)
(* draws the arguments, the actions make the calls and record what each    *)
(* returns or raises.  An argument <<nx, ny, k>> is the pair of numbers    *)
(* (nx / 2^k, ny / 2^k).                                                   *)
(***************************************************************************)
VARIABLES pc, args, ret

vars == <<pc, args, ret>>

\* Point(x, y) from the caller's numbers
NewPoint(n_) ==
  (CHOOSE val_ \in {Point(Dyadic(n[1], n[3]), Dyadic(n[2], n[3]))
    : n \in {n_}} : TRUE)

\* the optional argument end_tangent
NewOptPoint(o_) ==
  (CHOOSE val_ \in {IF o = None THEN None ELSE Some(NewPoint(o[1]))
    : o \in {o_}} : TRUE)

\* exact facts about the arguments
NonZero(n) == n[1] # 0 \/ n[2] # 0

Cross(a, b) == a[1] * b[2] - a[2] * b[1]

Dot(a, b) == a[1] * b[1] + a[2] * b[2]

Pending == [exc |-> "pending", msg |-> "", val |-> <<>>]

\* largest coordinate of an arc's end point
MaxEnd == 2

\* largest coordinate of the second line's anchor
MaxAnchor == 1

\* largest component of the vectors handed to Geometry
MaxVec == 2

\* binary places of the small vectors handed to is_orthogonal
TinyShift == 20

Origin == <<0, 0, 0>>

Tangents ==
  { <<1, 0, 0>>, <<0, 1, 0>>, <<0, -1, 0>>, <<2, 0, 0>>, <<0, 0, 0>>,
    <<-16383, 16385, 0>> }

Directions ==
  { <<1, 0, 0>>, <<0, 1, 0>>, <<1, 1, 0>>, <<-1, -1, 0>>, <<1, 2, 0>>,
    <<3, 4, 0>>, <<-6, -8, 0>>, <<0, 0, 0>> }

Axes ==
  { <<x, y, 0>> : x \in -1..1, y \in -1..1 } \cup { <<1, 2, 0>>, <<3, 4, 0>> }

(***************************************************************************)
(* Arc(start, end, start_tangent[, end_tangent])                           *)
(***************************************************************************)
InitArc ==
  /\ pc = "new"
  /\ args \in [start : {Origin},
               end : {<<x, y, 0>> : x \in -MaxEnd..MaxEnd, y \in -MaxEnd..MaxEnd},
               start_tangent : Tangents,
               end_tangent : {None} \cup {Some(t) : t \in Tangents}]
  /\ ret = Pending

NewArc ==
  /\ pc = "new"
  /\ ret' = Arc(NewPoint(args.start), NewPoint(args.end),
                NewPoint(args.start_tangent), NewOptPoint(args.end_tangent))
  /\ pc' = "arc"
  /\ UNCHANGED args

NextArc == NewArc

SpecArc == InitArc /\ [][NextArc]_vars

(***************************************************************************)
(* Line(p0, v0), Line(p1, v1), their intersection both ways, and contains  *)
(* of the intersection point                                               *)
(***************************************************************************)
InitLine ==
  /\ pc = "new"
  /\ args \in [p0 : {Origin}, v0 : Directions,
               p1 : {<<x, y, 0>> : x \in -MaxAnchor..MaxAnchor,
                                   y \in -MaxAnchor..MaxAnchor},
               v1 : Directions]
  /\ ret = Pending

NewLines ==
  /\ pc = "new"
  /\ ret' = (CHOOSE val_ \in {
              IF l0.exc # "none" THEN l0
              ELSE IF l1.exc # "none" THEN l1
              ELSE Ok([l0 |-> l0.val, l1 |-> l1.val])
              : l0 \in {Line(NewPoint(args.p0), NewPoint(args.v0))},
                l1 \in {Line(NewPoint(args.p1), NewPoint(args.v1))}} : TRUE)
  /\ pc' = "lines"
  /\ UNCHANGED args

Intersect ==
  /\ pc = "lines"
  /\ ret.exc = "none"
  /\ ret' = Ok([l0 |-> ret.val.l0, l1 |-> ret.val.l1,
                p |-> intersection(ret.val.l0, ret.val.l1),
                q |-> intersection(ret.val.l1, ret.val.l0)])
  /\ pc' = "intersected"
  /\ UNCHANGED args

Contains ==
  /\ pc = "intersected"
  /\ ret.val.p.exc = "none"
  /\ ret' = Ok([l0 |-> ret.val.l0, l1 |-> ret.val.l1,
                p |-> ret.val.p, q |-> ret.val.q,
                on0 |-> contains(ret.val.l0, ret.val.p.val),
                on1 |-> contains(ret.val.l1, ret.val.p.val)])
  /\ pc' = "contained"
  /\ UNCHANGED args

NextLine == NewLines \/ Intersect \/ Contains

SpecLine == InitLine /\ [][NextLine]_vars

(***************************************************************************)
(* Geometry.get_symmetrical(vector, axe), and again on its result          *)
(***************************************************************************)
InitGeometry ==
  /\ pc = "new"
  /\ args \in [vector : {<<x, y, 0>> : x \in -MaxVec..MaxVec, y \in -MaxVec..MaxVec}
                          \cup {<<-16383, 16385, 0>>},
               axe : Axes]
  /\ ret = Pending

GetSymmetrical ==
  /\ pc = "new"
  /\ ret' = get_symmetrical(NewPoint(args.vector), NewPoint(args.axe))
  /\ pc' = "once"
  /\ UNCHANGED args

GetSymmetricalAgain ==
  /\ pc = "once"
  /\ ret.exc = "none"
  /\ ret' = Ok([once |-> ret.val,
                twice |-> get_symmetrical(ret.val, NewPoint(args.axe))])
  /\ pc' = "twice"
  /\ UNCHANGED args

NextGeometry == GetSymmetrical \/ GetSymmetricalAgain

SpecGeometry == InitGeometry /\ [][NextGeometry]_vars

(***************************************************************************)
(* a.is_orthogonal(b), a.is_collinear(b) and Line(origin, a).contains(b)   *)
(***************************************************************************)
InitPoint ==
  /\ pc = "new"
  /\ args \in [a : {<<x, y, k>> : x \in -1..1, y \in -1..1, k \in {0, TinyShift}},
               b : {<<x, y, k>> : x \in -1..1, y \in -1..1, k \in {0, TinyShift}}]
  /\ ret = Pending

IsOrthogonal ==
  /\ pc = "new"
  /\ ret' = Ok(is_orthogonal(NewPoint(args.a), NewPoint(args.b)))
  /\ pc' = "orthogonal"
  /\ UNCHANGED args

IsCollinear ==
  /\ pc = "new"
  /\ ret' = Ok(is_collinear(NewPoint(args.a), NewPoint(args.b)))
  /\ pc' = "collinear"
  /\ UNCHANGED args

LineContains ==
  /\ pc = "new"
  /\ ret' = (CHOOSE val_ \in {
              IF l.exc # "none" THEN l
              ELSE Ok(contains(l.val, NewPoint(args.b)))
              : l \in {Line(NewPoint(Origin), NewPoint(args.a))}} : TRUE)
  /\ pc' = "contains"
  /\ UNCHANGED args

NextPoint == IsOrthogonal \/ IsCollinear \/ LineContains

SpecPoint == InitPoint /\ [][NextPoint]_vars

(***************************************************************************)
(* Properties                                                              *)
(***************************************************************************)
TangentsGiven == args.end_tangent # None

EndTangentArg == args.end_tangent[1]

ApproxEq(a, b) == isclose(a, b, Tol1e9, Tol1e9)

\* C1: an Arc from distinct end points and two supplied tangents that are
\* non-zero and not parallel to each other is constructed without exception.
ArcOfProperTangentsNeverRaises ==
  (/\ pc = "arc"
   /\ args.start # args.end
   /\ TangentsGiven
   /\ NonZero(args.start_tangent)
   /\ NonZero(EndTangentArg)
   /\ Cross(args.start_tangent, EndTangentArg) # 0)
  => ret.exc = "none"

\* C2: the center of every constructed Arc is at the same distance, the
\* radius, from start and from end.
CenterIsEquidistant ==
  (pc = "arc" /\ ret.exc = "none")
  => /\ ApproxEq(distance(ret.val.center, ret.val.start), ret.val.radius)
     /\ ApproxEq(distance(ret.val.center, ret.val.end), ret.val.radius)

\* C3: when the supplied tangents are parallel or anti-parallel, the Arc is
\* constructed without exception and its center is the midpoint of start and
\* end.
ParallelTangentsFallBackToMidpoint ==
  (/\ pc = "arc"
   /\ TangentsGiven
   /\ NonZero(args.start_tangent)
   /\ NonZero(EndTangentArg)
   /\ Cross(args.start_tangent, EndTangentArg) = 0)
  => /\ ret.exc = "none"
     /\ ret.val.center = midpoint(NewPoint(args.start), NewPoint(args.end))

\* C4: the intersection of two Lines with collinear directions raises the
\* ValueError 'Lines are parallel', and no intersection divides by zero.
ParallelLinesRaise ==
  pc = "intersected"
  => /\ Cross(args.v0, args.v1) = 0
        => /\ ret.val.p.exc = "ValueError" /\ ret.val.p.msg = ParallelMsg
           /\ ret.val.q.exc = "ValueError" /\ ret.val.q.msg = ParallelMsg
     /\ ret.val.p.exc # "ZeroDivisionError"
     /\ ret.val.q.exc # "ZeroDivisionError"

ParallelLinesRaiseWitness ==
  /\ pc = "intersected"
  /\ Cross(args.v0, args.v1) = 0
  /\ Dot(args.v0, args.v1) < 0
  /\ args.v0[1] # 0 /\ args.v0[2] # 0
  /\ ret.val.p.exc = "ValueError"

\* C5: the intersection of two Lines with non-parallel directions is
\* contained in both, and is the same point when taken from the other Line.
IntersectionOnBothLines ==
  (pc = "contained" /\ Cross(args.v0, args.v1) # 0)
  => /\ ret.val.on0
     /\ ret.val.on1
     /\ ret.val.q.exc = "none"
     /\ Point_eq(ret.val.q.val, ret.val.p.val)

C6Args ==
  [start |-> Origin, end |-> <<2, 0, 0>>, start_tangent |-> <<0, 1, 0>>,
   end_tangent |-> None]

\* C6 as stated: Arc((0,0), (2,0), (0,1)) has center (1,0), radius 1 and the
\* derived end tangent (0,1).
SymmetricArcKeepsTangent ==
  (pc = "arc" /\ args = C6Args)
  => /\ ret.exc = "none"
     /\ Point_eq(ret.val.center, NewPoint(<<1, 0, 0>>))
     /\ ret.val.radius = FOne
     /\ Point_eq(ret.val.end_tangent, NewPoint(<<0, 1, 0>>))

\* C6 amended: Arc((0,0), (2,0), (0,1)) has center (1,0), radius 1 and the
\* derived end tangent (0,-1), the mirror image of (0,1) in the chord axis.
SymmetricArcMirrorsTangent ==
  (pc = "arc" /\ args = C6Args)
  => /\ ret.exc = "none"
     /\ Point_eq(ret.val.center, NewPoint(<<1, 0, 0>>))
     /\ ret.val.radius = FOne
     /\ Point_eq(ret.val.end_tangent, NewPoint(<<0, -1, 0>>))

SymmetricArcWitness == pc = "arc" /\ args = C6Args /\ ret.exc = "none"

\* C7: is_orthogonal(a, b) is true exactly when the scalar product of a and
\* b is at most 1e-9 in absolute value.
OrthogonalWithinTolerance ==
  pc = "orthogonal"
  => (ret.val <=>
        FLe(FAbs(scalar_product(NewPoint(args.a), NewPoint(args.b))), Tol1e9))

\* C8: get_symmetrical(v, a) is the mirror image 2 (v.u) u - v of v in the
\* direction u = a / |a|: it keeps a v collinear with a, reverses a v
\* orthogonal to a, keeps the length of v, and applied twice gives v back
\* (points compared as Point.__eq__ compares them).
SymmetricalIsMirrorImage ==
  pc = "twice"
  => LET v == NewPoint(args.vector)
         u == normalize(NewPoint(args.axe), FZero).val
         r == ret.val.once
         mirror == Point_sub(Point_mul(u, FMul(FTwo, scalar_product(v, u))), v)
     IN /\ Point_eq(r, mirror)
        /\ Cross(args.vector, args.axe) = 0 => Point_eq(r, v)
        /\ Dot(args.vector, args.axe) = 0 => Point_eq(r, reverse(v))
        /\ ApproxEq(distance(r, NewPoint(Origin)), distance(v, NewPoint(Origin)))
        /\ ret.val.twice.exc = "none"
        /\ Point_eq(ret.val.twice.val, v)

SymmetricalIsMirrorImageWitness ==
  /\ pc = "twice"
  /\ Cross(args.vector, args.axe) # 0
  /\ Dot(args.vector, args.axe) # 0
  /\ args.axe[1] # 0 /\ args.axe[2] # 0
  /\ ~Point_eq(ret.val.once, NewPoint(args.vector))
  /\ ret.val.twice.exc = "none"

\* C9: an Arc with start = end is constructed without exception, with or
\* without end tangent, and its angle is acos of the scalar product of the
\* tangents; with start # end the angle is 2 * asin(distance / (2 * radius)).
ZeroChordUsesAcos ==
  (/\ pc = "arc"
   /\ NonZero(args.start_tangent)
   /\ TangentsGiven => NonZero(EndTangentArg))
  => /\ args.start = args.end
        => /\ ret.exc = "none"
           /\ ret.val.angle.fn = "acos"
           /\ ret.val.angle.arg =
                scalar_product(NewPoint(args.start_tangent), ret.val.end_tangent)
     /\ (args.start # args.end /\ ret.exc = "none")
        => /\ ret.val.angle.fn = "asin"
           /\ ret.val.angle.arg =
                FDiv(distance(ret.val.start, ret.val.end),
                     FMul(FTwo, ret.val.radius))

\* C10: an Arc from distinct end points and a non-zero start tangent alone
\* is constructed without exception, its center is at the same distance
\* from start and end, and its radius is at least half the chord.
SingleTangentArcIsSound ==
  (/\ pc = "arc"
   /\ ~TangentsGiven
   /\ args.start # args.end
   /\ NonZero(args.start_tangent))
  => /\ ret.exc = "none"
     /\ ApproxEq(distance(ret.val.center, ret.val.start),
                 distance(ret.val.center, ret.val.end))
     /\ FLe(FDiv(distance(ret.val.start, ret.val.end), FTwo), ret.val.radius)
     /\ FLe(ret.val.angle.arg, FOne)

====
